---- MODULE Spec2Model ----
(***************************************************************************)
(* Pro Active balance-sheet dashboard: the spreadsheet parser, the         *)
(* localStorage persistence adapter, the Gemini insight requester and the  *)
(* App component that orchestrates them.                                   *)
(*                                                                         *)
(* Conventions.  A JavaScript string that the code inspects is a sequence  *)
(* of one-character strings (the character i-acute is the token "i'", its  *)
(* capital "I'").  A JavaScript number is a record: [k |-> "fin", c |-> n] *)
(* is the finite number n/100 (values are held in hundredths, so           *)
(* "1.234,56" is c = 123456), [k |-> "inf", c |-> 1 or -1] is +/-Infinity  *)
(* and [k |-> "nan", c |-> 0] is NaN.  JSON null read back in the place of *)
(* a number is [k |-> "null", c |-> 0].                                    *)
(***************************************************************************)
EXTENDS Integers, Sequences, FiniteSets, Bags, TLC

-----------------------------------------------------------------------------
(* Bounds of the model *)

\* longest sheet (rows, header included) that an upload may carry
MaxRows == 3
\* uploads whose file is being read at the same time
MaxPending == 2
\* cap on the generateContent calls awaiting a response
MaxInflight == 2

-----------------------------------------------------------------------------
(* JavaScript values *)

Fin(c) == [k |-> "fin", c |-> c]
Infinity == [k |-> "inf", c |-> 1]
NaN == [k |-> "nan", c |-> 0]
JsonNull == [k |-> "null", c |-> 0]
Zero == Fin(0)

\* cells of a sheet as sheet_to_json(header: 1) hands them over
Undefined == [t |-> "undefined"]
NumCell(n) == [t |-> "number", n |-> n]
StrCell(s) == [t |-> "string", s |-> s]

\* truthiness of a number: 0 and NaN (and null) are falsy
NumTruthy(n) == \/ n.k = "inf"
                \/ n.k = "fin" /\ n.c # 0

\* truthiness of a cell: undefined, "", 0 and NaN are falsy
Truthy(v) == CASE v.t = "undefined" -> FALSE
               [] v.t = "number" -> NumTruthy(v.n)
               [] v.t = "string" -> v.s # <<>>

\* x || 0 on a number
OrZero(n) == IF NumTruthy(n) THEN n ELSE Zero

-----------------------------------------------------------------------------
(* Strings *)

Digits == <<"0", "1", "2", "3", "4", "5", "6", "7", "8", "9">>
Upper == <<"A", "B", "C", "D", "E", "F", "G", "H", "I", "J", "K", "L", "M",
           "N", "O", "P", "Q", "R", "S", "T", "U", "V", "W", "X", "Y", "Z", "I'">>
Lower == <<"a", "b", "c", "d", "e", "f", "g", "h", "i", "j", "k", "l", "m",
           "n", "o", "p", "q", "r", "s", "t", "u", "v", "w", "x", "y", "z", "i'">>

\* String.prototype.indexOf on a sequence of characters: the position of the
\* first ch, 0 when there is none
IndexOf(seq, ch) == IF \E i \in 1..Len(seq) : seq[i] = ch
                    THEN CHOOSE i \in 1..Len(seq) :
                           seq[i] = ch /\ \A j \in 1..(i - 1) : seq[j] # ch
                    ELSE 0

\* the position of ch in an alphabet (no character twice), 0 when not in it
Position(alphabet, ch) ==
  IF \E i \in 1..Len(alphabet) : alphabet[i] = ch
  THEN CHOOSE i \in 1..Len(alphabet) : alphabet[i] = ch
  ELSE 0

IsDigit(ch) == Position(Digits, ch) # 0
DigitVal(ch) == Position(Digits, ch) - 1

\* toLowerCase of one character
LowerChar(ch) == LET p == Position(Upper, ch) IN IF p # 0 THEN Lower[p] ELSE ch

\* String.prototype.toLowerCase
toLowerCase(s) == [i \in 1..Len(s) |-> LowerChar(s[i])]

\* String.prototype.includes
includes(s, sub) == \E i \in 1..(Len(s) - Len(sub) + 1) : SubSeq(s, i, i + Len(sub) - 1) = sub

StartsWith(s, pre) == Len(s) >= Len(pre) /\ SubSeq(s, 1, Len(pre)) = pre

\* the decimal digits of a natural number
RECURSIVE NatToString(_)
NatToString(n) == IF n < 10 THEN <<Digits[n + 1]>>
                  ELSE NatToString(n \div 10) \o <<Digits[(n % 10) + 1]>>

\* the digits after the decimal point of h hundredths, trailing zeros dropped
FracToString(h) == IF h % 10 = 0 THEN <<Digits[(h \div 10) + 1]>>
                   ELSE <<Digits[(h \div 10) + 1], Digits[(h % 10) + 1]>>

Abs(c) == IF c < 0 THEN -c ELSE c

\* String(n) for a number
NumToString(n) ==
  CASE n.k = "nan" -> <<"N", "a", "N">>
    [] n.k = "inf" -> (IF n.c < 0 THEN <<"-">> ELSE <<>>)
                        \o <<"I", "n", "f", "i", "n", "i", "t", "y">>
    [] n.k = "fin" -> (IF n.c < 0 THEN <<"-">> ELSE <<>>)
                        \o NatToString(Abs(n.c) \div 100)
                        \o (IF Abs(n.c) % 100 = 0 THEN <<>>
                            ELSE <<".">> \o FracToString(Abs(n.c) % 100))

\* String(v) and v.toString() for a cell that is a number or a string
CellToString(v) == IF v.t = "number" THEN NumToString(v.n) ELSE v.s

-----------------------------------------------------------------------------
(* parseMoeda *)

\* .replace(/[R$\.\s]/g, '')
StripCurrency(s) == SelectSeq(s, LAMBDA ch : ch \notin {"R", "$", ".", " "})

\* .replace(',', '.'): the first comma only
ReplaceFirstComma(s) ==
  IF IndexOf(s, ",") = 0 THEN s
  ELSE [i \in 1..Len(s) |-> IF i = IndexOf(s, ",") THEN "." ELSE s[i]]

\* the longest prefix of s made of digits
RECURSIVE DigitPrefix(_)
DigitPrefix(s) == IF s # <<>> /\ IsDigit(s[1]) THEN <<s[1]>> \o DigitPrefix(Tail(s)) ELSE <<>>

RECURSIVE DigitsValue(_, _)
DigitsValue(s, acc) == IF s = <<>> THEN acc
                       ELSE DigitsValue(Tail(s), acc * 10 + DigitVal(s[1]))

\* hundredths denoted by the fraction digits f (digits past the second are dropped)
FracValue(f) == (IF Len(f) >= 1 THEN 10 * DigitVal(f[1]) ELSE 0)
                + (IF Len(f) >= 2 THEN DigitVal(f[2]) ELSE 0)

\* parseFloat of an unsigned text (no exponent part)
ParseUnsigned(s) ==
  LET ip == DigitPrefix(s)
      rest == SubSeq(s, Len(ip) + 1, Len(s))
      fp == IF rest # <<>> /\ rest[1] = "." THEN DigitPrefix(Tail(rest)) ELSE <<>>
  IN  IF StartsWith(s, <<"I", "n", "f", "i", "n", "i", "t", "y">>) THEN Infinity
      ELSE IF ip = <<>> /\ fp = <<>> THEN NaN
      ELSE Fin(DigitsValue(ip, 0) * 100 + FracValue(fp))

Negate(n) == IF n.k = "nan" THEN n ELSE [n EXCEPT !.c = -n.c]

\* parseFloat
parseFloat(s) ==
  IF s # <<>> /\ s[1] = "-" THEN Negate(ParseUnsigned(Tail(s)))
  ELSE IF s # <<>> /\ s[1] = "+" THEN ParseUnsigned(Tail(s))
  ELSE ParseUnsigned(s)

parseMoeda(valor) ==
  IF ~Truthy(valor) THEN Zero
  ELSE IF valor.t = "number" THEN valor.n
  ELSE OrZero(parseFloat(ReplaceFirstComma(StripCurrency(CellToString(valor)))))

-----------------------------------------------------------------------------
(* The parser: the rows.forEach loop of handleFileUpload *)

Total == <<"t", "o", "t", "a", "l">>
Circulante == <<"c", "i", "r", "c", "u", "l", "a", "n", "t", "e">>
Liquido == <<"l", "i'", "q", "u", "i", "d", "o">>

\* row[j], undefined past the end of the row
Col(row, j) == IF j + 1 <= Len(row) THEN row[j + 1] ELSE Undefined

\* the asset item pushed for a row
AtivoItem(row) ==
  LET desc == CellToString(Col(row, 0))
      lower == toLowerCase(desc)
  IN  [desc |-> desc,
       v25 |-> parseMoeda(Col(row, 1)),
       v24 |-> parseMoeda(Col(row, 2)),
       isTotal |-> includes(lower, Total),
       isGroup |-> includes(lower, Circulante)]

\* the liability item pushed for a row
PassivoItem(row) ==
  LET desc == CellToString(Col(row, 4))
      lower == toLowerCase(desc)
  IN  [desc |-> desc,
       v25 |-> parseMoeda(Col(row, 5)),
       v24 |-> parseMoeda(Col(row, 6)),
       isTotal |-> includes(lower, Total),
       isGroup |-> includes(lower, Circulante) \/ includes(lower, Liquido)]

\* the loop without the idx === 0 return: the header row gives an item too
RECURSIVE ParseAtivo_KeepsHeader(_, _)
ParseAtivo_KeepsHeader(rows, idx) ==
  IF idx >= Len(rows) THEN <<>>
  ELSE (IF Truthy(Col(rows[idx + 1], 0)) THEN <<AtivoItem(rows[idx + 1])>> ELSE <<>>)
         \o ParseAtivo_KeepsHeader(rows, idx + 1)

\* nA after the rows idx..Len(rows) have been visited (idx counts from 0)
RECURSIVE ParseAtivo(_, _)
ParseAtivo(rows, idx) ==
  IF idx >= Len(rows) THEN <<>>
  ELSE (IF idx # 0 /\ Truthy(Col(rows[idx + 1], 0)) THEN <<AtivoItem(rows[idx + 1])>> ELSE <<>>)
         \o ParseAtivo(rows, idx + 1)

\* nP after the rows idx..Len(rows) have been visited
RECURSIVE ParsePassivo(_, _)
ParsePassivo(rows, idx) ==
  IF idx >= Len(rows) THEN <<>>
  ELSE (IF idx # 0 /\ Truthy(Col(rows[idx + 1], 4)) THEN <<PassivoItem(rows[idx + 1])>> ELSE <<>>)
         \o ParsePassivo(rows, idx + 1)

DEFAULT_KPIS ==
  << [name |-> "Liquidez Corrente", v25 |-> "8.42", v24 |-> "9.23", description |-> "Capacidade curto prazo"],
     [name |-> "Liquidez Seca", v25 |-> "5.26", v24 |-> "4.84", description |-> "Sem estoques"],
     [name |-> "ROI", v25 |-> "18.6%", v24 |-> "22.1%", description |-> "Retorno s/ Ativo"],
     [name |-> "Endividamento", v25 |-> "11.8%", v24 |-> "10.8%", description |-> "Exigivel / Ativo"],
     [name |-> "Giro do Ativo", v25 |-> "1.15", v24 |-> "1.08", description |-> "Eficiencia vendas"],
     [name |-> "Margem Bruta", v25 |-> "42.5%", v24 |-> "40.2%", description |-> "Resultado bruto"],
     [name |-> "Margem Liquida", v25 |-> "15.2%", v24 |-> "14.8%", description |-> "Lucro / Receita"],
     [name |-> "ROE", v25 |-> "21.4%", v24 |-> "24.5%", description |-> "Retorno s/ PL"] >>

\* newData built by the file-read callback from the sheet's rows at time now
NewData(rows, now) ==
  [ativo |-> ParseAtivo(rows, 0),
   passivo |-> ParsePassivo(rows, 0),
   kpis |-> DEFAULT_KPIS,
   lastUpdated |-> now]

-----------------------------------------------------------------------------
(* JSON and the persistence adapter (databaseService) *)

\* the value null
Null == [t |-> "null"]

\* what localStorage holds under STORAGE_KEY: nothing, or a text.  A text is
\* the empty string, a JSON document, or text that is not JSON.
Absent == [t |-> "absent"]
EmptyText == [t |-> "text", valid |-> FALSE, empty |-> TRUE, doc |-> Null]
Garbage == [t |-> "text", valid |-> FALSE, empty |-> FALSE, doc |-> Null]
JsonText(doc) == [t |-> "text", valid |-> TRUE, empty |-> FALSE, doc |-> doc]

\* JSON documents of other shapes than DashboardData
DocNull == [j |-> "null"]
DocNumber(n) == [j |-> "number", n |-> n]
DocEmptyObject == [j |-> "object", members |-> {}]

\* JSON.stringify of a number: NaN and the infinities are written as null
NumberToJson(n) == IF n.k = "fin" THEN n ELSE JsonNull

ItemToJson(i) == [i EXCEPT !.v25 = NumberToJson(i.v25), !.v24 = NumberToJson(i.v24)]

ItemsToJson(items) == [x \in 1..Len(items) |-> ItemToJson(items[x])]

\* JSON.stringify of a DashboardData
JSON_stringify(d) ==
  JsonText([j |-> "object",
            members |-> {"ativo", "passivo", "kpis", "lastUpdated"},
            ativo |-> ItemsToJson(d.ativo),
            passivo |-> ItemsToJson(d.passivo),
            kpis |-> d.kpis,
            lastUpdated |-> d.lastUpdated])

\* JSON.parse throws a SyntaxError on text that is not JSON (the empty string too)
JSON_parse_throws(text) == ~text.valid

\* the value JSON.parse builds from a JSON document
JSON_parse(text) ==
  LET doc == text.doc
  IN  CASE doc.j = "null" -> Null
        [] doc.j = "number" -> [t |-> "number", n |-> doc.n]
        [] doc.j = "object" /\ doc.members = {} -> [t |-> "object"]
        [] doc.j = "object" /\ doc.members # {} ->
             [ativo |-> doc.ativo, passivo |-> doc.passivo,
              kpis |-> doc.kpis, lastUpdated |-> doc.lastUpdated]

\* localStorage after databaseService.saveData(d)
saveData(d) == JSON_stringify(d)

\* clearing by writing the empty string instead of removing the key
clearData_WritesEmpty == EmptyText

\* localStorage after databaseService.clearData()
clearData == Absent

\* !saved: getItem gave null or the empty string
NotSaved(st) == st.t = "absent" \/ st.empty

\* a SyntaxError leaving loadData, which the code never lets happen
Thrown == [t |-> "thrown"]

\* loadData without its try/catch
loadData_NoCatch(st) ==
  IF NotSaved(st) THEN Null
  ELSE IF JSON_parse_throws(st) THEN Thrown
  ELSE JSON_parse(st)

\* what databaseService.loadData() returns when localStorage holds st
loadData(st) ==
  IF NotSaved(st) THEN Null
  ELSE IF JSON_parse_throws(st) THEN Null
  ELSE JSON_parse(st)

\* whether a value has the shape of a DashboardData
IsDashboardData(v) == DOMAIN v = {"ativo", "passivo", "kpis", "lastUpdated"}

\* truthiness of a value loadData returns
ValueTruthy(v) == IF IsDashboardData(v) THEN TRUE
                  ELSE CASE v.t = "null" -> FALSE
                         [] v.t = "number" -> NumTruthy(v.n)
                         [] v.t = "object" -> TRUE

-----------------------------------------------------------------------------
(* Summary totals and the insight requester (getFinancialInsights) *)

\* items.find(i => i.isTotal): the position of the first total row, 0 when none
FindTotal(items) ==
  IF \E x \in 1..Len(items) : items[x].isTotal
  THEN CHOOSE x \in 1..Len(items) :
         items[x].isTotal /\ \A y \in 1..(x - 1) : ~items[y].isTotal
  ELSE 0

\* items.find(i => i.isTotal)?.v25 || 0
TotalV25(items) == IF FindTotal(items) = 0 THEN Zero ELSE OrZero(items[FindTotal(items)].v25)

\* items.find(i => i.isTotal)?.v24 || 0
TotalV24(items) == IF FindTotal(items) = 0 THEN Zero ELSE OrZero(items[FindTotal(items)].v24)

\* the totals memo of App
Totals(d) ==
  IF d = Null THEN [a25 |-> Zero, a24 |-> Zero, p25 |-> Zero, p24 |-> Zero]
  ELSE [a25 |-> TotalV25(d.ativo), a24 |-> TotalV24(d.ativo),
        p25 |-> TotalV25(d.passivo), p24 |-> TotalV24(d.passivo)]

\* the figures the prompt template embeds
Prompt(d) ==
  [ativoTotal25 |-> TotalV25(d.ativo),
   passivoTotal25 |-> TotalV25(d.passivo),
   kpis |-> [x \in 1..Len(d.kpis) |->
               [name |-> d.kpis[x].name, v25 |-> d.kpis[x].v25, v24 |-> d.kpis[x].v24]]]

\* the insight text shown before any request
NoInsights == [text |-> ""]
\* the text returned when the response carries no text
FallbackEmpty == [text |-> "Nao foi possivel gerar insights no momento."]
\* the text returned when generateContent fails
FallbackError == [text |-> "Erro ao conectar com o servico de IA. Verifique sua conexao."]
\* a non-empty text the remote service generates for a prompt
Generated(prompt) == [text |-> "generated", prompt |-> prompt]

\* how the remote step may end: with a text, with an empty text, or by failing
\* (network, credential rejected by the service, malformed response)
Outcomes == {"text", "empty", "error"}

\* new GoogleGenAI({ apiKey }): in a browser the constructor throws when the
\* key is missing; it runs before the try block
ConstructorThrows(keySet) == ~keySet

\* what the try/catch of getFinancialInsights returns for an outcome of the call
InsightResult(prompt, outcome) ==
  CASE outcome = "text" -> Generated(prompt)
    [] outcome = "empty" -> FallbackEmpty
    [] outcome = "error" -> FallbackError

-----------------------------------------------------------------------------
(* Inputs: rows, sheets and the instants an upload may complete at *)

S_Ativo == <<"A", "t", "i", "v", "o">>
S_Passivo == <<"P", "a", "s", "s", "i", "v", "o">>
S_2025 == <<"2", "0", "2", "5">>
S_2024 == <<"2", "0", "2", "4">>
S_Caixa == <<"C", "a", "i", "x", "a">>
S_Forn == <<"F", "o", "r", "n">>
S_TOTAL == <<"T", "O", "T", "A", "L">>
S_TotalLiquido == <<"T", "o", "t", "a", "l", " ", "L", "I'", "Q", "U", "I", "D", "O">>
S_Total == <<"T", "o", "t", "a", "l">>
S_Circulante == <<"C", "i", "r", "c", "u", "l", "a", "n", "t", "e">>
S_Money == <<"R", "$", " ", "1", ".", "2", "3", "4", ",", "5", "6">>
S_900 == <<"9", "0", "0">>
S_Infinity == <<"I", "n", "f", "i", "n", "i", "t", "y">>
S_abc == <<"a", "b", "c">>
S_Minus12 == <<"-", "1", "2">>
S_Half == <<",", "5">>

RowHeader == <<StrCell(S_Ativo), StrCell(S_2025), StrCell(S_2024), Undefined,
               StrCell(S_Passivo), StrCell(S_2025), StrCell(S_2024)>>
RowCaixa == <<StrCell(S_Caixa), NumCell(Fin(10000)), NumCell(Fin(8000)), Undefined,
              StrCell(S_Forn), NumCell(Fin(4000)), NumCell(Fin(3000))>>
RowTotal == <<StrCell(S_TOTAL), StrCell(S_Money), StrCell(S_900), Undefined,
              StrCell(S_TotalLiquido), StrCell(S_Money), NumCell(Fin(90000))>>
RowInfinity == <<StrCell(S_Total), StrCell(S_Infinity), NumCell(Fin(500))>>
RowZero == <<NumCell(Zero), NumCell(Fin(500)), NumCell(Fin(500)), Undefined,
             StrCell(<<>>), NumCell(Fin(100)), NumCell(Fin(100))>>
RowPassivoOnly == <<Undefined, Undefined, Undefined, Undefined,
                    StrCell(S_Circulante), StrCell(S_abc), Undefined>>
RowNumber == <<NumCell(Fin(750)), StrCell(S_Minus12), StrCell(S_Half), Undefined,
               NumCell(Fin(300)), Undefined, StrCell(S_900)>>

RowPool == {RowHeader, RowCaixa, RowTotal, RowInfinity, RowZero, RowPassivoOnly, RowNumber}

\* every sheet of at most MaxRows rows
Sheets == UNION {[1..n -> RowPool] : n \in 0..MaxRows}

\* the spreadsheets the user of the App picks from
FileBalance == <<RowHeader, RowCaixa, RowTotal>>
FileInfinity == <<RowHeader, RowInfinity>>
FileHeaderOnly == <<RowHeader>>
Files == {FileBalance, FileInfinity, FileHeaderOnly}

\* values of new Date().toISOString()
Timestamps == {"2025-01-01T00:00:00.000Z", "2025-01-02T00:00:00.000Z"}

\* what an earlier session of the App may have left in localStorage
EarlierStorage == {Absent} \cup {saveData(NewData(f, now)) : f \in Files, now \in Timestamps}

\* texts under the key that the App did not write
ForeignTexts == {EmptyText, Garbage, JsonText(DocNull), JsonText(DocNumber(Fin(4200))),
                 JsonText(DocNumber(Zero)), JsonText(DocEmptyObject)}

Remove(seq, i) == SubSeq(seq, 1, i - 1) \o SubSeq(seq, i + 1, Len(seq))

\* the bag holding x once
One(x) == SetToBag({x})

-----------------------------------------------------------------------------
(* The App component *)

VARIABLES
  data,          \* useState: DashboardData | null
  aiInsights,    \* useState: the insight text
  isAiLoading,   \* useState: the loading flag
  activeTab,     \* useState: the selected tab (only generateInsights is modelled to set it)
  totals,        \* useMemo over [data]
  storage,       \* localStorage under STORAGE_KEY
  savedData,     \* what the last databaseService.loadData() returned
  mounted,       \* the load-initial-data effect has run
  readers,       \* FileReaders still reading: the bag of their sheets
  requests,      \* generateContent calls awaiting their response: the prompt of each
  insightCall,   \* the promise of the last getFinancialInsights call
  apiKeySet,     \* process.env.API_KEY is defined
  event          \* the handler that ran last, with its input

vars == <<data, aiInsights, isAiLoading, activeTab, totals, storage, savedData,
          mounted, readers, requests, insightCall, apiKeySet, event>>

\* the state of a freshly constructed App over a given localStorage
Fresh(st, keySet) ==
  /\ data = Null
  /\ aiInsights = NoInsights
  /\ isAiLoading = FALSE
  /\ activeTab = "balanco"
  /\ totals = Totals(Null)
  /\ storage = st
  /\ savedData = Null
  /\ mounted = FALSE
  /\ readers = EmptyBag
  /\ requests = <<>>
  /\ insightCall = "none"
  /\ apiKeySet = keySet
  /\ event = [op |-> "init"]

Init == \E st \in EarlierStorage, keySet \in BOOLEAN : Fresh(st, keySet)

\* an effect that falls back to sample figures when nothing is stored
InitialData_Placeholder(saved) ==
  IF ValueTruthy(saved) THEN saved ELSE NewData(<<RowHeader, RowCaixa>>, "sample")

\* the value the load-initial-data effect leaves in data
InitialData(saved) == IF ValueTruthy(saved) THEN saved ELSE Null

\* useEffect(() => { loadData(); if (savedData) setData(savedData) }, [])
LoadInitialData ==
  /\ ~mounted
  /\ mounted' = TRUE
  /\ savedData' = loadData(storage)
  /\ data' = InitialData(loadData(storage))
  /\ totals' = Totals(data')
  /\ event' = [op |-> "mount"]
  /\ UNCHANGED <<aiInsights, isAiLoading, activeTab, storage, readers, requests,
                 insightCall, apiKeySet>>

\* handleFileUpload with a file chosen: the read of the file starts
handleFileUpload(file) ==
  /\ mounted
  /\ BagCardinality(readers) < MaxPending
  /\ readers' = readers (+) One(file)
  /\ event' = [op |-> "upload"]
  /\ UNCHANGED <<data, aiInsights, isAiLoading, activeTab, totals, storage, savedData,
                 mounted, requests, insightCall, apiKeySet>>

\* reader.onload of a pending read of the sheet rows, running at time now
ReaderOnload(rows, now) ==
  /\ BagIn(rows, readers)
  /\ data' = NewData(rows, now)
  /\ totals' = Totals(data')
  /\ storage' = saveData(data')
  /\ aiInsights' = NoInsights
  /\ readers' = readers (-) One(rows)
  /\ event' = [op |-> "onload", rows |-> rows, now |-> now]
  /\ UNCHANGED <<isAiLoading, activeTab, savedData, mounted, requests, insightCall,
                 apiKeySet>>

\* handleReset; confirmed is the answer to the confirm() dialog
handleReset(confirmed) ==
  /\ mounted
  /\ IF confirmed
     THEN /\ storage' = clearData
          /\ data' = Null
          /\ totals' = Totals(data')
          /\ aiInsights' = NoInsights
          /\ event' = [op |-> "reset"]
          /\ UNCHANGED <<isAiLoading, activeTab, savedData, mounted, readers, requests,
                         insightCall, apiKeySet>>
     ELSE UNCHANGED vars

\* the button without the loading flag in its disabled condition
InsightsButtonEnabled_NoFlag == data # Null

\* the AI Insights button is enabled: disabled={!data || isAiLoading}
InsightsButtonEnabled == data # Null /\ ~isAiLoading

\* generateInsights up to its await: the flag is raised and getFinancialInsights
\* runs up to generateContent; when the constructor throws the promise rejects
\* and the rest of generateInsights never runs
generateInsights ==
  /\ mounted
  /\ InsightsButtonEnabled
  /\ Len(requests) < MaxInflight
  /\ isAiLoading' = TRUE
  /\ IF ConstructorThrows(apiKeySet)
     THEN /\ insightCall' = "rejected"
          /\ UNCHANGED requests
     ELSE /\ insightCall' = "pending"
          /\ requests' = Append(requests, Prompt(data))
  /\ event' = [op |-> "request"]
  /\ UNCHANGED <<data, aiInsights, activeTab, totals, storage, savedData, mounted,
                 readers, apiKeySet>>

\* the i-th outstanding generateContent call ends, and generateInsights resumes
InsightResponse(i, outcome) ==
  /\ i \in 1..Len(requests)
  /\ aiInsights' = InsightResult(requests[i], outcome)
  /\ isAiLoading' = FALSE
  /\ activeTab' = "insights"
  /\ requests' = Remove(requests, i)
  /\ insightCall' = "fulfilled"
  /\ event' = [op |-> "response"]
  /\ UNCHANGED <<data, totals, storage, savedData, mounted, readers, apiKeySet>>

Next ==
  \/ LoadInitialData
  \/ \E file \in Files : handleFileUpload(file)
  \/ \E rows \in BagToSet(readers), now \in Timestamps : ReaderOnload(rows, now)
  \/ \E confirmed \in BOOLEAN : handleReset(confirmed)
  \/ generateInsights
  \/ \E i \in 1..Len(requests), outcome \in Outcomes : InsightResponse(i, outcome)

Spec == Init /\ [][Next]_vars

\* what the remote service is assumed to guarantee: an outstanding
\* generateContent call ends (with a text, an empty text or a failure), and
\* generateInsights then resumes.  Nothing obliges the user to click.
Fairness ==
  WF_vars(\E i \in 1..Len(requests), outcome \in Outcomes : InsightResponse(i, outcome))

FairSpec == Spec /\ Fairness

-----------------------------------------------------------------------------
(* The persistence adapter on its own: any caller, any stored text.       *)
(* Here data is the aggregate handed to the last saveData, Null when the  *)
(* key was last written otherwise, and savedData the last loadData result *)

\* the aggregates a caller saves
SavedAggregates == {NewData(rows, now) : rows \in Files \cup {<<>>, <<RowHeader, RowNumber, RowZero>>},
                                         now \in Timestamps}

InitDb == \E st \in EarlierStorage \cup ForeignTexts : Fresh(st, TRUE)

DbSave(d) ==
  /\ storage' = saveData(d)
  /\ data' = d
  /\ event' = [op |-> "save"]
  /\ UNCHANGED <<aiInsights, isAiLoading, activeTab, totals, savedData, mounted, readers,
                 requests, insightCall, apiKeySet>>

DbLoad ==
  /\ savedData' = loadData(storage)
  /\ event' = [op |-> "load"]
  /\ UNCHANGED <<data, aiInsights, isAiLoading, activeTab, totals, storage, mounted,
                 readers, requests, insightCall, apiKeySet>>

DbClear ==
  /\ storage' = clearData
  /\ data' = Null
  /\ event' = [op |-> "clear"]
  /\ UNCHANGED <<aiInsights, isAiLoading, activeTab, totals, savedData, mounted, readers,
                 requests, insightCall, apiKeySet>>

\* the key is written by something else than saveData
DbForeignWrite(text) ==
  /\ storage' = text
  /\ data' = Null
  /\ event' = [op |-> "foreign"]
  /\ UNCHANGED <<aiInsights, isAiLoading, activeTab, totals, savedData, mounted, readers,
                 requests, insightCall, apiKeySet>>

NextDb ==
  \/ \E d \in SavedAggregates : DbSave(d)
  \/ DbLoad
  \/ DbClear
  \/ \E text \in ForeignTexts : DbForeignWrite(text)

SpecDb == InitDb /\ [][NextDb]_vars

-----------------------------------------------------------------------------
(* The parser on its own: the App, mounted over an empty store, reads one *)
(* sheet drawn from Sheets                                                 *)

InitParser ==
  \E rows \in Sheets :
    /\ data = Null
    /\ aiInsights = NoInsights
    /\ isAiLoading = FALSE
    /\ activeTab = "balanco"
    /\ totals = Totals(Null)
    /\ storage = Absent
    /\ savedData = Null
    /\ mounted = TRUE
    /\ readers = One(rows)
    /\ requests = <<>>
    /\ insightCall = "none"
    /\ apiKeySet = TRUE
    /\ event = [op |-> "upload"]

NextParser == \E rows \in BagToSet(readers), now \in Timestamps : ReaderOnload(rows, now)

SpecParser == InitParser /\ [][NextParser]_vars

-----------------------------------------------------------------------------
(* Claims, checked under Spec unless said otherwise *)

\* C1: when a reset has cleared the data while an insight request was in
\* flight, the response that arrives afterwards is ignored: once it has been
\* handled, with the data still cleared, the insight text is still empty.
C1_LateResponseIgnored ==
  (event.op = "response" /\ data = Null) => aiInsights = NoInsights

\* C2: at most one insight request is in flight, the loading flag is up for as
\* long as one is, and a new request can start only with data loaded and the
\* flag down.
C2_AtMostOneRequest ==
  /\ Len(requests) <= 1
  /\ requests # <<>> => isAiLoading
  /\ (ENABLED generateInsights) => (data # Null /\ ~isAiLoading)

\* C2 witness: a request is in flight after a reset cleared the data and while
\* an upload is being read.
C2_Witness == Len(requests) = 1 /\ isAiLoading /\ data = Null /\ readers # EmptyBag

\* C3: getFinancialInsights never raises to its caller: its promise is never
\* rejected.
C3_NeverRaises == insightCall # "rejected"

C5_UploadReplacesAndPersists ==
  event.op = "onload" =>
    /\ data = NewData(event.rows, event.now)
    /\ loadData(storage) = data
    /\ aiInsights = NoInsights

\* C6: right after a confirmed reset the key is absent, a load gives null, the
\* data is null and the insight text is empty.
C6_ResetClears ==
  event.op = "reset" =>
    /\ storage = Absent
    /\ loadData(storage) = Null
    /\ data = Null
    /\ aiInsights = NoInsights

\* C6 witness: a reset ran while a request was in flight and a file was being
\* read.
C6_Witness == event.op = "reset" /\ requests # <<>> /\ readers # EmptyBag

\* C7 (under SpecDb): a load that follows a save with no write in between
\* returns the saved aggregate, and a save leaves the text of its argument in
\* the store whatever was there.
C7_RoundTrip ==
  /\ (event.op = "load" /\ data # Null) => savedData = data
  /\ event.op = "save" => storage = JSON_stringify(data)

\* the aggregates that an upload builds or an earlier session left behind
UploadedOrStored ==
  {NewData(f, now) : f \in Files, now \in Timestamps}
    \cup {loadData(st) : st \in EarlierStorage \ {Absent}}

ClaimedTotal(items, total, field) ==
  /\ \A x \in 1..Len(items) :
       (items[x].isTotal /\ \A y \in 1..(x - 1) : ~items[y].isTotal) => total = items[x][field]
  /\ (\A x \in 1..Len(items) : ~items[x].isTotal) => total = Zero

\* C9: in every state each summary total is the value of the first total row
\* of its list in data, and 0 without such a row or without data.
C9_TotalsOfFirstTotalRow ==
  IF data = Null THEN totals = [a25 |-> Zero, a24 |-> Zero, p25 |-> Zero, p24 |-> Zero]
  ELSE /\ ClaimedTotal(data.ativo, totals.a25, "v25")
       /\ ClaimedTotal(data.ativo, totals.a24, "v24")
       /\ ClaimedTotal(data.passivo, totals.p25, "v25")
       /\ ClaimedTotal(data.passivo, totals.p24, "v24")

\* a cell that is not empty: neither missing nor the empty text
NonEmpty(v) == v # Undefined /\ v # StrCell(<<>>)

\* the k-th smallest member of a set of row positions
Kth(S, k) == CHOOSE i \in S : Cardinality({j \in S : j <= i}) = k

\* items holds, in row order, one item for each row in S and nothing else,
\* each built from the three columns starting at base
BuiltFrom(items, rows, S, base) ==
  /\ Len(items) = Cardinality(S)
  /\ \A k \in 1..Len(items) :
       LET row == rows[Kth(S, k)]
       IN  /\ items[k].desc = CellToString(Col(row, base))
           /\ items[k].v25 = parseMoeda(Col(row, base + 1))
           /\ items[k].v24 = parseMoeda(Col(row, base + 2))

\* C10 (as claimed, under SpecParser): every row after the first with a
\* non-empty column 0 gives one asset item, every one with a non-empty column 4
\* one liability item, in row order, and there are no other items.
C10_NonEmptyRowsGiveItems ==
  event.op = "onload" =>
    /\ BuiltFrom(data.ativo, event.rows,
                 {i \in 2..Len(event.rows) : NonEmpty(Col(event.rows[i], 0))}, 0)
    /\ BuiltFrom(data.passivo, event.rows,
                 {i \in 2..Len(event.rows) : NonEmpty(Col(event.rows[i], 4))}, 4)

\* C10 (amended, under SpecParser): the same with "truthy" for "non-empty": a
\* cell holding the number 0 gives no item.
C10_TruthyRowsGiveItems ==
  event.op = "onload" =>
    /\ BuiltFrom(data.ativo, event.rows,
                 {i \in 2..Len(event.rows) : Truthy(Col(event.rows[i], 0))}, 0)
    /\ BuiltFrom(data.passivo, event.rows,
                 {i \in 2..Len(event.rows) : Truthy(Col(event.rows[i], 4))}, 4)

\* C10 witness: a sheet whose first row would give items was parsed into two
\* asset items and one liability item.
C10_Witness ==
  /\ event.op = "onload"
  /\ Len(event.rows) = 3
  /\ Truthy(Col(event.rows[1], 0))
  /\ Len(data.ativo) = 2
  /\ Len(data.passivo) = 1

\* C11 (under FairSpec): every insight request ends with the loading flag
\* down again: whenever the flag is up it is eventually down.
C11_FlagEventuallyDown == isAiLoading ~> ~isAiLoading

\* C12: a generated insight text on display over loaded data was produced
\* from that data: it answers the prompt built from the current aggregate, so
\* the late response for an earlier aggregate is never shown over the data of
\* a later upload.  (The text shown over cleared data is the case of C1.)
C12_InsightOfCurrentData ==
  (data # Null /\ aiInsights.text = "generated") => aiInsights.prompt = Prompt(data)

====
